---- MODULE Spec2Model ----
(***************************************************************************)
(* Analysis tab of the Faceswap GUI: lib/gui/display_analysis.py.          *)
(*                                                                         *)
(* Three objects are modelled:                                             *)
(*   Analysis      load / reset / clear / save of the session summary      *)
(*   StatsData     the summary tree, row selection, popup placement        *)
(*   SessionPopUp  one detail window: its data, options and csv export     *)
(*                                                                         *)
(* Tk runs every callback to completion on one thread, so each handler is  *)
(* one action.  The only loop of the file (data_popup_get_position) is     *)
(* unrolled one iteration per step, with pc = "search" while it runs.      *)
(***************************************************************************)
EXTENDS Integers, Sequences, FiniteSets, TLC

VARIABLES
    summary,          \* Analysis.summary: None or the sequence of records
    session,          \* Analysis.session: None or the Session object
    info,             \* text set by DisplayPage.set_info
    loaded_data,      \* StatsData.loaded_data
    selected_id,      \* StatsData.selected_id (tk.StringVar)
    popup_positions,  \* StatsData.popup_positions
    tree,             \* rows of StatsData.tree, in display order
    tree_height,      \* configured height of StatsData.tree
    focus,            \* StatsData.tree.focus(): 0 (no item) or a row index
    pc,               \* "idle", or "search" inside data_popup_get_position
    init_pos,         \* local init_pos of data_popup_get_position
    pos,              \* local pos of data_popup_get_position
    position,         \* value last returned by data_popup_get_position
    screen,           \* <<winfo_screenwidth(), winfo_screenheight()>>
    popup,            \* the SessionPopUp under study: None or its fields
    outfile,          \* the file behind the save dialog: None or its rows
    stdout,           \* what the last handler printed ("" for nothing)
    picker_invoked,   \* whether the last handler opened a file dialog
    raised,           \* exception that ended the last handler, or "none"
    last_op,          \* the last handler that ran, with its outcome
    popup_arg         \* the data argument of the last SessionPopUp(...) call

analysisVars == <<summary, session, info>>
statsVars    == <<loaded_data, selected_id, popup_positions, tree, tree_height, focus>>
frameVars    == <<pc, init_pos, pos, position>>
envVars      == <<screen, outfile>>
obsVars      == <<stdout, picker_invoked, raised, last_op, popup_arg>>
vars == <<analysisVars, statsVars, frameVars, envVars, obsVars, popup>>

(***************************************************************************)
(* Bounds of the model.                                                    *)
(***************************************************************************)
\* sessions in a loaded summary
MaxSessions == 2
\* calls of data_popup_get_position in one run
MaxOpens == 13
\* samples in one series of a detail view
MaxSamples == 2
\* views opened from the tree in one run
MaxViews == 3

(***************************************************************************)
(* Python values.                                                          *)
(***************************************************************************)
None == {}
Some(v) == {v}
Val(o) == CHOOSE v \in o : TRUE

\* truth value of an optional sequence: None and the empty sequence are falsy
truthy(o) == o /= None /\ Len(Val(o)) > 0

\* str(n) of a non-negative integer
py_str(n) == ToString(n)

\* largest integer whose decimal form int() is asked to read in the model
MaxInt == 10

\* int(s): the integer whose decimal form is s; ValueError for any other text
is_decimal(s) == \E n \in 0..MaxInt : py_str(n) = s
py_int(s) == CHOOSE n \in 0..MaxInt : py_str(n) = s

\* seq[i] with a Python index: 0-based, a negative index counts from the end
py_index_ok(seq, i) == i >= -Len(seq) /\ i < Len(seq)
py_index(seq, i) == IF i >= 0 THEN seq[i + 1] ELSE seq[Len(seq) + i + 1]

\* sorted() of a set of field names: the names in lexicographic order
KeyOrder ==
    <<"avg", "batch", "elapsed", "end", "iterations", "rate", "raw", "session",
      "start", "trend">>
RECURSIVE sorted_from(_, _)
sorted_from(keys, i) ==
    IF i > Len(KeyOrder) THEN <<>>
    ELSE (IF KeyOrder[i] \in keys THEN <<KeyOrder[i]>> ELSE <<>>)
         \o sorted_from(keys, i + 1)
sorted(keys) == sorted_from(keys, 1)

(***************************************************************************)
(* The session source (lib/gui/stats.py, outside this file).  A session    *)
(* is described by the elapsed time of each of its runs (each run a        *)
(* little longer than the one before); full_summary is one record per run  *)
(* followed by the Total record.                                           *)
(***************************************************************************)
ElapsedValues == {10, 20}
ElapsedSeqs ==
    {[i \in 1..n |-> first + i] : n \in 1..MaxSessions, first \in ElapsedValues}

RECURSIVE sum_seq(_)
sum_seq(s) == IF s = <<>> THEN 0 ELSE Head(s) + sum_seq(Tail(s))

SessionRecord(id, elapsed) ==
    [session |-> id, start |-> "t0", end |-> "t1", elapsed |-> py_str(elapsed),
     batch |-> "64", iterations |-> py_str(elapsed * 10), rate |-> "5.0"]

full_summary(es) ==
    [i \in 1..Len(es) |-> SessionRecord(py_str(i), es[i])]
    \o <<SessionRecord("Total", sum_seq(es))>>

\* the Session object: its flag, its summary and its per-run raw data
Session(es) ==
    [initialized |-> TRUE,
     full_summary |-> full_summary(es),
     data |-> [i \in 1..Len(es) |-> [run |-> i, elapsed |-> es[i]]]]

(***************************************************************************)
(* StatsData: the tree.                                                    *)
(***************************************************************************)
columns == <<"session", "start", "end", "elapsed", "batch", "iterations", "rate">>

\* one inserted row: the column values of the record, tagged when it is the total
tree_row_tags_lowercase(item) ==
    LET values == [c \in 1..Len(columns) |-> item[columns[c]]]
    IN [values |-> values, tags |-> IF values[1] = "total" THEN "total" ELSE ""]
tree_row(item) ==
    LET values == [c \in 1..Len(columns) |-> item[columns[c]]]
    IN [values |-> values, tags |-> IF values[1] = "Total" THEN "total" ELSE ""]

tree_insert_data(t, sessions) ==
    t \o [i \in 1..Len(sessions) |-> tree_row(sessions[i])]

tree_clear_keeps_rows(t) == t
tree_clear(t) == <<>>

reset_session_info == "No session data loaded"


(***************************************************************************)
(* SessionPopUp: the data of a detail view.  SessionsTotals lives in       *)
(* lib/gui/stats.py; its result is kept as "the aggregate of these         *)
(* sessions".                                                              *)
(***************************************************************************)
SessionsTotals(sessions) == [stats |-> [aggregate_of |-> sessions]]

is_totals_of(session_id) == session_id = "Total"

\* the exception set_session_data ends with, "none" when it returns
set_session_data_raises(is_totals, sessions, session_id) ==
    IF sessions = None THEN "TypeError"
    ELSE IF is_totals THEN "none"
    ELSE IF ~is_decimal(session_id) THEN "ValueError"
    ELSE IF ~py_index_ok(Val(sessions), py_int(session_id) - 1) THEN "IndexError"
    ELSE "none"

set_session_data_off_by_one(is_totals, sessions, session_id) ==
    IF is_totals THEN SessionsTotals(Val(sessions)).stats
    ELSE py_index(Val(sessions), py_int(session_id) - 2)
set_session_data(is_totals, sessions, session_id) ==
    IF is_totals THEN SessionsTotals(Val(sessions)).stats
    ELSE py_index(Val(sessions), py_int(session_id) - 1)

(***************************************************************************)
(* Analysis: the handlers of the four buttons.                             *)
(***************************************************************************)
Observe(op, printed, picked, exc) ==
    /\ last_op' = op
    /\ stdout' = printed
    /\ picker_invoked' = picked
    /\ raised' = exc

clear_session_forgets_positions ==
    /\ pc = "idle"
    /\ summary' = None
    /\ loaded_data' = None
    /\ tree' = tree_clear(tree)
    /\ tree_height' = 1
    /\ focus' = 0
    /\ info' = reset_session_info
    /\ popup_positions' = <<>>
    /\ Observe("clear_session", "", FALSE, "none")
    /\ UNCHANGED <<session, selected_id, frameVars, envVars, popup_arg, popup>>

clear_session_keeps_summary ==
    /\ pc = "idle"
    /\ loaded_data' = None
    /\ tree' = tree_clear(tree)
    /\ tree_height' = 1
    /\ focus' = 0
    /\ info' = reset_session_info
    /\ Observe("clear_session", "", FALSE, "none")
    /\ UNCHANGED <<summary, session, selected_id, popup_positions, frameVars,
                   envVars, popup_arg, popup>>

\* the handler of the clear button (lines 112-118)
clear_session ==
    /\ pc = "idle"
    /\ summary' = None
    /\ loaded_data' = None
    /\ tree' = tree_clear(tree)
    /\ tree_height' = 1
    /\ focus' = 0
    /\ info' = reset_session_info
    /\ Observe("clear_session", "", FALSE, "none")
    /\ UNCHANGED <<session, selected_id, popup_positions, frameVars, envVars,
                   popup_arg, popup>>

\* the clear_session of the caller (line 63 or 95) followed by lines 105-110
set_session_summary(new_session, message) ==
    /\ session' = Some(new_session)
    /\ summary' = Some(new_session.full_summary)
    /\ info' = "Session: " \o message
    /\ loaded_data' = None
    /\ tree' = tree_insert_data(tree_clear(tree), new_session.full_summary)
    /\ tree_height' = Len(new_session.full_summary)
    /\ focus' = 0

\* clear_session followed by an early return
returned_without_clearing ==
    UNCHANGED <<summary, loaded_data, tree, tree_height, focus, info, session>>
cleared_and_returned ==
    /\ summary' = None
    /\ loaded_data' = None
    /\ tree' = tree_clear(tree)
    /\ tree_height' = 1
    /\ focus' = 0
    /\ info' = reset_session_info
    /\ UNCHANGED session

\* os.path.split(state_file)[0] of a bare file name: the empty head
load_message == ""

load_session ==
    /\ pc = "idle"
    /\ \/ \* the file picker returned nothing
          /\ cleared_and_returned
          /\ Observe("load_session:cancelled", "", TRUE, "none")
       \/ \* get_model_name found no <model>_logs folder
          /\ cleared_and_returned
          /\ Observe("load_session:nologs", "", TRUE, "none")
       \/ \E es \in ElapsedSeqs :
          /\ set_session_summary(Session(es), load_message)
          /\ Observe("load_session:ok", "", TRUE, "none")
    /\ UNCHANGED <<selected_id, popup_positions, frameVars, envVars, popup_arg, popup>>

reset_session ==
    /\ pc = "idle"
    /\ \/ \* get_config().session.initialized is False
          /\ cleared_and_returned
          /\ Observe("reset_session:notrunning", "Training not running", FALSE, "none")
       \/ \E es \in ElapsedSeqs :
          /\ set_session_summary(Session(es), "Currently running training session")
          /\ Observe("reset_session:ok", "", FALSE, "none")
    /\ UNCHANGED <<selected_id, popup_positions, frameVars, envVars, popup_arg, popup>>

(***************************************************************************)
(* csv.DictWriter over the summary (lines 132-140).                        *)
(***************************************************************************)
\* whether the summary object has a values() method: it is the sequence that
\* tree_insert_data iterates and indexes by column name, which has none
has_values(s) == FALSE

csv_fieldnames(first) == sorted(DOMAIN first)
csv_dictrow(row, fieldnames) == [k \in 1..Len(fieldnames) |-> row[fieldnames[k]]]
csv_summary(records) ==
    LET fieldnames == csv_fieldnames(records[1])
    IN <<fieldnames>> \o [i \in 1..Len(records) |-> csv_dictrow(records[i], fieldnames)]

save_session ==
    /\ pc = "idle"
    /\ \/ /\ ~truthy(summary)
          /\ Observe("save_session:nodata", "No summary data loaded. Nothing to save",
                     FALSE, "none")
          /\ UNCHANGED outfile
       \/ /\ truthy(summary)
          /\ Observe("save_session:cancelled", "", TRUE, "none")
          /\ UNCHANGED outfile
       \/ /\ truthy(summary)
          /\ IF has_values(Val(summary))
             THEN /\ outfile' = Some(csv_summary(Val(summary)))
                  /\ Observe("save_session:saved", "", TRUE, "none")
             ELSE \* the dialog has created the file; line 132 raises
                  /\ outfile' = Some(<<>>)
                  /\ Observe("save_session:saved", "", TRUE, "AttributeError")
    /\ UNCHANGED <<analysisVars, statsVars, frameVars, screen, popup_arg, popup>>


(***************************************************************************)
(* Calculations (lib/gui/stats.py): the derived series of a view.  One     *)
(* series per selected transform.  How many samples a series gets is the   *)
(* calculation's business: every series n samples, or each transform one   *)
(* sample fewer than the one before it.  Sample i of series k is written   *)
(* as a number that names both.                                            *)
(***************************************************************************)
transforms == <<"raw", "trend", "avg">>
series_code(k) == CHOOSE c \in 1..Len(transforms) : transforms[c] = k
series(k, len) == [i \in 1..len |-> py_str(series_code(k) * 10 + i)]

SeriesShapes == {"equal", "ragged"}
series_len(k, n, shape) ==
    IF shape = "equal" THEN n
    ELSE IF n < series_code(k) THEN 0
    ELSE n - (series_code(k) - 1)

Calculations(data, display, selections, avgiterations, outliers, is_totals) ==
    LET keys == {selections[i] : i \in 1..Len(selections)}
    IN {[stats |-> [k \in keys |-> series(k, series_len(k, n, shape))]] :
            n \in 0..MaxSamples, shape \in SeriesShapes}

(***************************************************************************)
(* SessionPopUp: options, build, recompute.                                *)
(***************************************************************************)
\* the option variables after opts_build (lines 386-455)
default_vars ==
    [display |-> "Loss", scale |-> "Linear", raw |-> TRUE, trend |-> FALSE,
     avg |-> FALSE, outliers |-> FALSE, avgiterations |-> "10"]

\* self.vars in insertion order, and which of its values are tk.BooleanVar
var_order ==
    <<"display", "scale", "raw", "trend", "avg", "outliers", "avgiterations">>
is_BooleanVar(key) == key \in {"raw", "trend", "avg", "outliers"}

selections_to_list_ignores_get(v) ==
    SelectSeq(var_order, LAMBDA key : is_BooleanVar(key) /\ key /= "outliers")
selections_to_list(v) ==
    SelectSeq(var_order,
              LAMBDA key : is_BooleanVar(key) /\ key /= "outliers" /\ v[key])

\* the arguments compile_display_data hands to Calculations besides the data
calc_args_of(v) ==
    [display |-> v.display, selections |-> selections_to_list(v),
     avgiterations |-> v.avgiterations, outliers |-> v.outliers]

\* the results compile_display_data may store for a view with options v
compile_display_data(data, v, is_totals) ==
    Calculations(data, v.display, selections_to_list(v), v.avgiterations,
                 v.outliers, is_totals)

\* the counters of a view, zeroed when a handler starts
fresh(p) == [p EXCEPT !.computes = 0, !.refreshes = 0, !.yscales = 0]

\* compile_display_data on view p with options v, the calculation giving calc
compiled(p, v, calc) ==
    [p EXCEPT !.display_data = Some(calc), !.calc_args = Some(calc_args_of(v)),
              !.computes = @ + 1]

\* optbtn_reset on view p whose options are now v (lines 485-492)
optbtn_reset_on_returns_early(p, v) == {[p EXCEPT !.vars = v]}
optbtn_reset_on_ignores_flag(p, v) ==
    {[compiled(p, v, calc) EXCEPT !.vars = v, !.graph_data = Some(calc),
                                  !.refreshes = @ + 1] :
         calc \in compile_display_data(p.data, v, p.is_totals)}
optbtn_reset_on(p, v) ==
    IF ~p.graph_initialised
    THEN {[p EXCEPT !.vars = v]}
    ELSE {[compiled(p, v, calc) EXCEPT !.vars = v, !.graph_data = Some(calc),
                                       !.refreshes = @ + 1] :
              calc \in compile_display_data(p.data, v, p.is_totals)}

\* graph_scale on view p whose options are now v (lines 494-498)
graph_scale_on(p, v) ==
    IF ~p.graph_initialised
    THEN [p EXCEPT !.vars = v]
    ELSE [p EXCEPT !.vars = v, !.yscales = @ + 1]

\* graph_build (lines 545-553): the graph is made from display_data
graph_build(p) == [p EXCEPT !.graph_data = p.display_data, !.graph_initialised = TRUE]

\* the view at line 344, before build(): nothing computed, no graph
SessionPopUp_unbuilt(data, session_id) ==
    [is_totals |-> is_totals_of(session_id),
     data |-> set_session_data(is_totals_of(session_id), data, session_id),
     session_id |-> session_id,
     vars |-> default_vars,
     display_data |-> None,
     graph_data |-> None,
     graph_initialised |-> FALSE,
     \* the arguments of the last Calculations(...) call
     calc_args |-> None,
     \* calls of compile_display_data, graph.refresh and graph.set_yscale_type
     \* made by the handler that ran last
     computes |-> 0,
     refreshes |-> 0,
     yscales |-> 0]

\* the view after __init__ has run build(), display_data being calc: the two
\* combobox defaults are written and run their traces (line 406), then
\* compile_display_data (line 361), then graph_build (line 362)
SessionPopUp(data, session_id, calc) ==
    LET p0 == SessionPopUp_unbuilt(data, session_id)
        p1 == CHOOSE p \in optbtn_reset_on(p0, default_vars) : TRUE
        p2 == graph_scale_on(p1, default_vars)
        p3 == compiled(p2, default_vars, calc)
    IN graph_build(p3)

(***************************************************************************)
(* StatsData: popup placement (lines 302-327).                             *)
(***************************************************************************)
boundary_x == screen[1] - 120
boundary_y == screen[2] - 120

data_popup_check_boundaries_nudges_y(initial_position, pos_) ==
    IF pos_[1] >= boundary_x \/ pos_[2] >= boundary_y
    THEN <<<<initial_position[1] + 50, initial_position[2] + 50>>,
           <<initial_position[1] + 50, initial_position[2] + 50>>>>
    ELSE <<initial_position, pos_>>
data_popup_check_boundaries_no_nudge(initial_position, pos_) ==
    IF pos_[1] >= boundary_x \/ pos_[2] >= boundary_y
    THEN <<initial_position, initial_position>>
    ELSE <<initial_position, pos_>>
data_popup_check_boundaries(initial_position, pos_) ==
    IF pos_[1] >= boundary_x \/ pos_[2] >= boundary_y
    THEN <<<<initial_position[1] + 50, initial_position[2]>>,
           <<initial_position[1] + 50, initial_position[2]>>>>
    ELSE <<initial_position, pos_>>

\* pos in self.popup_positions
position_taken_checks_first_only(p, positions) ==
    Len(positions) > 0 /\ positions[1] = p
position_taken(p, positions) == \E i \in 1..Len(positions) : positions[i] = p

\* lines 305-306: the first candidate
first_position == <<120, 120>>

\* line 311
next_position_x_only(p) == <<p[1] + 200, p[2]>>
next_position(p) == <<p[1] + 200, p[2] + 200>>

\* one pass of the while loop of data_popup_get_position
search_step ==
    /\ pc = "search"
    /\ \/ /\ ~position_taken(pos, popup_positions)
          /\ popup_positions' = Append(popup_positions, pos)
          /\ position' = Some(pos)
          /\ pc' = "idle"
          /\ UNCHANGED <<init_pos, pos>>
       \/ /\ position_taken(pos, popup_positions)
          /\ LET checked == data_popup_check_boundaries(init_pos, next_position(pos))
             IN /\ init_pos' = checked[1]
                /\ pos' = checked[2]
          /\ UNCHANGED <<popup_positions, position, pc>>
    /\ UNCHANGED <<analysisVars, loaded_data, selected_id, tree, tree_height, focus,
                   envVars, obsVars, popup>>

\* a call of data_popup_get_position on the StatsData object
data_popup_get_position ==
    /\ pc = "idle"
    /\ Len(popup_positions) < MaxOpens
    /\ pc' = "search"
    /\ init_pos' = first_position
    /\ pos' = first_position
    /\ Observe("data_popup_get_position", "", FALSE, "none")
    /\ UNCHANGED <<analysisVars, statsVars, position, envVars, popup_arg, popup>>

\* the user closes a window placed earlier.  Nothing of this file is bound to
\* the window's destruction (no protocol handler, no destroy override), and
\* data_popup keeps no reference to it (line 281): no code runs
popup_close ==
    /\ pc = "idle"
    /\ Len(popup_positions) > 0
    /\ Observe("popup_close", "", FALSE, "none")
    /\ UNCHANGED <<analysisVars, statsVars, frameVars, envVars, popup_arg, popup>>

(***************************************************************************)
(* StatsData: row selection and data_popup (lines 265-290).                *)
(***************************************************************************)
\* data_popup with the id just selected: the view is constructed first
data_popup_allocates_first(id) ==
    LET exc == set_session_data_raises(is_totals_of(id), loaded_data, id)
    IN /\ popup_arg' = Some(loaded_data)
       /\ Len(popup_positions) < MaxViews
       /\ pc' = "search"
       /\ init_pos' = first_position
       /\ pos' = first_position
       /\ UNCHANGED position
       /\ IF exc /= "none"
          THEN /\ Observe("select_item:data_popup", "", FALSE, exc)
               /\ UNCHANGED popup
          ELSE /\ Observe("select_item:data_popup", "", FALSE, "none")
               /\ \E calc \in compile_display_data(
                          set_session_data(is_totals_of(id), loaded_data, id),
                          default_vars, is_totals_of(id)) :
                      popup' = Some(SessionPopUp(loaded_data, id, calc))
data_popup(id) ==
    LET exc == set_session_data_raises(is_totals_of(id), loaded_data, id)
    IN /\ popup_arg' = Some(loaded_data)
       /\ IF exc /= "none"
          THEN /\ Observe("select_item:data_popup", "", FALSE, exc)
               /\ UNCHANGED <<frameVars, popup>>
          ELSE /\ Len(popup_positions) < MaxViews
               /\ Observe("select_item:data_popup", "", FALSE, "none")
               /\ \E calc \in compile_display_data(
                          set_session_data(is_totals_of(id), loaded_data, id),
                          default_vars, is_totals_of(id)) :
                      popup' = Some(SessionPopUp(loaded_data, id, calc))
               /\ pc' = "search"
               /\ init_pos' = first_position
               /\ pos' = first_position
               /\ UNCHANGED position

\* a click released over the tree; the press has moved the focus to the row
\* under the pointer, if there is one
select_item ==
    /\ pc = "idle"
    /\ \/ \* over a heading or below the last row
          /\ focus' = focus
          /\ IF focus = 0
             THEN /\ Observe("select_item:novalues", "", FALSE, "none")
                  /\ UNCHANGED selected_id
             ELSE /\ Observe("select_item:selected", "", FALSE, "none")
                  /\ selected_id' = tree[focus].values[1]
          /\ UNCHANGED <<frameVars, popup_arg, popup>>
       \/ \* over the cells of a row
          \E row \in 1..Len(tree) :
          /\ focus' = row
          /\ selected_id' = tree[row].values[1]
          /\ Observe("select_item:selected", "", FALSE, "none")
          /\ UNCHANGED <<frameVars, popup_arg, popup>>
       \/ \* over the graph icon of a row (region "tree")
          \E row \in 1..Len(tree) :
          /\ focus' = row
          /\ selected_id' = tree[row].values[1]
          /\ data_popup(tree[row].values[1])
    /\ UNCHANGED <<analysisVars, loaded_data, popup_positions, tree, tree_height,
                   envVars>>

(***************************************************************************)
(* The analysis tab as the program runs it.                                *)
(***************************************************************************)
ScreenSizes == {<<800, 600>>, <<640, 480>>}

Init ==
    /\ summary = None
    /\ session = None
    /\ info = reset_session_info
    /\ loaded_data = None
    /\ selected_id = ""
    /\ popup_positions = <<>>
    /\ tree = <<>>
    /\ tree_height = 1
    /\ focus = 0
    /\ pc = "idle"
    /\ init_pos = first_position
    /\ pos = first_position
    /\ position = None
    /\ screen \in ScreenSizes
    /\ popup = None
    /\ outfile = None
    /\ stdout = ""
    /\ picker_invoked = FALSE
    /\ raised = "none"
    /\ last_op = "init"
    /\ popup_arg = None

Next ==
    \/ load_session
    \/ reset_session
    \/ clear_session
    \/ save_session
    \/ select_item

Spec == Init /\ [][Next]_vars


(***************************************************************************)
(* The analysis tab with data_popup_get_position called on its StatsData   *)
(* object, any number of times between the handlers.                       *)
(***************************************************************************)
NextAlloc ==
    \/ Next
    \/ data_popup_get_position
    \/ search_step
    \/ popup_close

SpecAlloc == Init /\ [][NextAlloc]_vars

\* the while loop keeps running until it breaks
SpecAllocFair == SpecAlloc /\ WF_vars(search_step)


(***************************************************************************)
(* SessionPopUp: csv export of the displayed series (lines 471-483).       *)
(***************************************************************************)
RECURSIVE min_len(_)
min_len(seqs) ==
    IF Len(seqs) = 1 THEN Len(seqs[1])
    ELSE LET rest == min_len(Tail(seqs))
         IN IF Len(seqs[1]) < rest THEN Len(seqs[1]) ELSE rest

\* zip(*seqs): tuple i holds element i of every sequence; it stops with the
\* shortest, and zip() of nothing is empty
py_zip(seqs) ==
    IF Len(seqs) = 0 THEN <<>>
    ELSE [i \in 1..min_len(seqs) |-> [k \in 1..Len(seqs) |-> seqs[k][i]]]

\* what lines 477-483 write, in order: the header, then the rows
optbtn_save_records(save_data) ==
    LET fieldnames == sorted(DOMAIN save_data)
    IN <<fieldnames>>
       \o py_zip([k \in 1..Len(fieldnames) |-> save_data[fieldnames[k]]])

optbtn_save ==
    /\ pc = "idle"
    /\ popup /= None
    /\ LET records == optbtn_save_records(Val(Val(popup).display_data).stats)
       IN \/ \* the file picker returned nothing
             /\ Observe("optbtn_save:cancelled", "", TRUE, "none")
             /\ UNCHANGED outfile
          \/ \* every record is written
             /\ outfile' = Some(records)
             /\ Observe("optbtn_save:saved", "", TRUE, "none")
          \/ \* the sink fails on record n + 1; the with block closes the file
             \E n \in 0..(Len(records) - 1) :
             /\ outfile' = Some(SubSeq(records, 1, n))
             /\ Observe("optbtn_save:failed", "", TRUE, "OSError")
    /\ popup' = Some(fresh(Val(popup)))
    /\ UNCHANGED <<analysisVars, statsVars, frameVars, screen, popup_arg>>

(***************************************************************************)
(* SessionPopUp: option changes (lines 414-434, 485-492).                  *)
(***************************************************************************)
\* the reset button
optbtn_reset ==
    /\ pc = "idle"
    /\ popup /= None
    /\ \E p \in optbtn_reset_on(fresh(Val(popup)), Val(popup).vars) :
           popup' = Some(p)
    /\ Observe("optbtn_reset", "", FALSE, "none")
    /\ UNCHANGED <<analysisVars, statsVars, frameVars, envVars, popup_arg>>

\* a click on one of the four check buttons: the variable is written, its
\* trace runs optbtn_reset
checkbutton ==
    /\ pc = "idle"
    /\ popup /= None
    /\ \E item \in {"raw", "trend", "avg", "outliers"} :
       \E p \in optbtn_reset_on(fresh(Val(popup)),
                                [Val(popup).vars EXCEPT ![item] = ~@]) :
           popup' = Some(p)
    /\ Observe("checkbutton", "", FALSE, "none")
    /\ UNCHANGED <<analysisVars, statsVars, frameVars, envVars, popup_arg>>

\* a choice in the Display combobox: the variable is written, its trace runs
\* optbtn_reset (lines 392-394)
combobox_display ==
    /\ pc = "idle"
    /\ popup /= None
    /\ \E choice \in {"Loss", "Rate"} :
       \E p \in optbtn_reset_on(fresh(Val(popup)),
                                [Val(popup).vars EXCEPT !.display = choice]) :
           popup' = Some(p)
    /\ Observe("combobox:display", "", FALSE, "none")
    /\ UNCHANGED <<analysisVars, statsVars, frameVars, envVars, popup_arg>>

\* a choice in the Scale combobox: the variable is written, its trace runs
\* graph_scale (lines 392-394)
combobox_scale ==
    /\ pc = "idle"
    /\ popup /= None
    /\ \E choice \in {"Linear", "Log"} :
           popup' = Some(graph_scale_on(fresh(Val(popup)),
                                        [Val(popup).vars EXCEPT !.scale = choice]))
    /\ Observe("combobox:scale", "", FALSE, "none")
    /\ UNCHANGED <<analysisVars, statsVars, frameVars, envVars, popup_arg>>

\* the text of the avgiterations entry is edited.  The entry is a ttk.Entry
\* kept in self.vars as the widget itself (lines 447-451): it has no variable,
\* no trace and no binding, so no code of the view runs
EntryTexts == {"10", "0", "abc"}

entry_edit ==
    /\ pc = "idle"
    /\ popup /= None
    /\ \E text \in EntryTexts :
           popup' = Some([fresh(Val(popup)) EXCEPT !.vars.avgiterations = text])
    /\ Observe("entry", "", FALSE, "none")
    /\ UNCHANGED <<analysisVars, statsVars, frameVars, envVars, popup_arg>>

(***************************************************************************)
(* One SessionPopUp, constructed on the data of a session.                 *)
(***************************************************************************)
SessionInputs == {Session([i \in 1..n |-> 10]).data : n \in 1..MaxSessions}
IdInputs == {"Total"} \cup {py_str(n) : n \in 0..(MaxSessions + 1)}

\* SessionPopUp(data, session_id), lines 332-346
popup_open ==
    /\ pc = "idle"
    /\ popup = None
    /\ \E data \in SessionInputs, id \in IdInputs :
       LET exc == set_session_data_raises(is_totals_of(id), Some(data), id)
       IN /\ popup_arg' = Some(Some(data))
          /\ IF exc /= "none"
             THEN /\ Observe("SessionPopUp", "", FALSE, exc)
                  /\ UNCHANGED popup
             ELSE /\ Observe("SessionPopUp", "", FALSE, "none")
                  /\ \E calc \in compile_display_data(
                             set_session_data(is_totals_of(id), Some(data), id),
                             default_vars, is_totals_of(id)) :
                         popup' = Some(SessionPopUp(Some(data), id, calc))
    /\ UNCHANGED <<analysisVars, statsVars, frameVars, envVars>>

InitPopUp == Init /\ screen = <<800, 600>>

NextPopUp ==
    \/ popup_open
    \/ checkbutton
    \/ optbtn_reset
    \/ optbtn_save

SpecPopUp == InitPopUp /\ [][NextPopUp]_vars

\* the same view, every option control in use
NextOptions ==
    \/ popup_open
    \/ checkbutton
    \/ combobox_display
    \/ combobox_scale
    \/ entry_edit
    \/ optbtn_reset

SpecOptions == InitPopUp /\ [][NextOptions]_vars


(***************************************************************************)
(* The analysis tab with the per-session data of a store handed to its     *)
(* StatsData object, so that data_popup has data to build a view on.       *)
(***************************************************************************)
\* a caller assigns stats.loaded_data
set_loaded_data ==
    /\ pc = "idle"
    /\ summary /= None
    /\ \E data \in SessionInputs : loaded_data' = Some(data)
    /\ Observe("set_loaded_data", "", FALSE, "none")
    /\ UNCHANGED <<analysisVars, selected_id, popup_positions, tree, tree_height,
                   focus, frameVars, envVars, popup_arg, popup>>

NextDataPopUp ==
    \/ load_session
    \/ set_loaded_data
    \/ select_item
    \/ search_step

SpecDataPopUp == InitPopUp /\ [][NextDataPopUp]_vars


(***************************************************************************)
(* Properties of the popup placement.                                      *)
(***************************************************************************)
in_bounds(p) == p[1] < boundary_x /\ p[2] < boundary_y

\* C1: every position data_popup_get_position has returned lies inside the
\* screen boundaries: x < screen_width - 120 and y < screen_height - 120.
C1_ReturnedInBounds ==
    \A i \in 1..Len(popup_positions) : in_bounds(popup_positions[i])


\* C2: data_popup_get_position never returns the same (x, y) twice: the list
\* of allocated positions holds no duplicate, and the position last returned
\* is in it.
C2_NeverSamePositionTwice ==
    /\ \A i, j \in 1..Len(popup_positions) :
           i /= j => popup_positions[i] /= popup_positions[j]
    /\ (pc = "idle" /\ position /= None) =>
           position_taken(Val(position), popup_positions)

\* four calls have returned: the later ones had to step past taken positions
C2_Witness == pc = "idle" /\ Len(popup_positions) >= 4

\* C3: every call of data_popup_get_position returns: the search loop, once
\* entered, reaches its break.
C3_SearchTerminates == (pc = "search") ~> (pc = "idle")

\* a call has returned a nudged origin: it went through step, boundary check
\* and nudge before it ended
C3_Witness ==
    /\ pc = "idle"
    /\ position /= None
    /\ Val(position)[1] > first_position[1]
    /\ Val(position)[2] = first_position[2]


(***************************************************************************)
(* Properties of the analysis tab and of the detail view.                  *)
(***************************************************************************)
\* C4: when a row is selected and data_popup constructs the SessionPopUp, the
\* sessions data it hands over is the data of the loaded session.
C4_PopupGetsLoadedData ==
    last_op = "select_item:data_popup" =>
        /\ session /= None
        /\ popup_arg = Some(Some(Val(session).data))

\* C5: a view opened with id "Total" has is_totals set and holds the aggregate
\* over all sessions, which is no single session's data; a view opened with a
\* 1-based id n has is_totals unset and holds the n-th session's data.
C5_TotalsOrNthSession ==
    popup /= None =>
        LET p == Val(popup)
            sessions == Val(Val(popup_arg))
        IN IF p.session_id = "Total"
           THEN /\ p.is_totals
                /\ p.data = SessionsTotals(sessions).stats
                /\ \A i \in 1..Len(sessions) : p.data /= sessions[i]
           ELSE /\ ~p.is_totals
                /\ py_int(p.session_id) >= 1 =>
                       p.data = sessions[py_int(p.session_id)]

\* a view was opened on the second of two sessions
C5_Witness ==
    /\ popup /= None
    /\ Val(popup).session_id = "2"
    /\ Len(Val(Val(popup_arg))) = 2

\* C6: once clear_session has run and while no summary is loaded, save_session
\* reports that nothing is loaded without opening the file picker or touching
\* the file, and a click on the tree finds no row and constructs no view.
C6_NothingLoadedAfterClear ==
    /\ [](last_op = "clear_session" => (summary = None /\ tree = <<>>))
    /\ [][summary = None =>
            /\ last_op' \in {"save_session:nodata", "save_session:cancelled",
                             "save_session:saved"} =>
                   /\ last_op' = "save_session:nodata"
                   /\ stdout' = "No summary data loaded. Nothing to save"
                   /\ ~picker_invoked'
                   /\ outfile' = outfile
            /\ last_op' \in {"select_item:novalues", "select_item:selected",
                             "select_item:data_popup"} =>
                   /\ last_op' = "select_item:novalues"
                   /\ popup_arg' = popup_arg
                   /\ popup' = popup
                   /\ selected_id' = selected_id]_vars

\* save_session found nothing to save although a session had been loaded before
C6_Witness ==
    /\ last_op = "save_session:nodata"
    /\ session /= None
    /\ summary = None

\* C7: the rows of the tree are exactly the records of the current summary, in
\* order, and there is no row when no summary is loaded.
C7_TreeShowsCurrentSummary ==
    tree = IF summary = None THEN <<>>
           ELSE [i \in 1..Len(Val(summary)) |-> tree_row(Val(summary)[i])]

\* a summary is shown that was loaded after a row of an earlier one was selected
C7_Witness ==
    /\ summary /= None
    /\ selected_id /= ""
    /\ focus = 0
    /\ Len(tree) = Len(Val(summary))

\* C8: an export has no partial result: after save_session or optbtn_save the
\* file holds the header and every row, or the handler failed and the file is
\* as it was or holds no bytes.
C8_NoPartialExport ==
    [][/\ last_op' = "optbtn_save:failed" =>
              (outfile' = outfile \/ outfile' = Some(<<>>))
       /\ (last_op' = "save_session:saved" /\ raised' /= "none") =>
              (outfile' = outfile \/ outfile' = Some(<<>>))]_vars

same_length(stats) ==
    \A k1, k2 \in DOMAIN stats : Len(stats[k1]) = Len(stats[k2])

\* C9: optbtn_save with a destination chosen, on series that do not all have
\* the same length, fails with a ShapeMismatchError.
C9_UnequalSeriesNotExported ==
    (/\ last_op \in {"optbtn_save:saved", "optbtn_save:failed"}
     /\ ~same_length(Val(Val(popup).display_data).stats)) =>
        raised = "ShapeMismatchError"

\* C10: save_session with a summary loaded and a destination chosen writes the
\* sorted field names of the first record, then one row per record of the
\* summary, the Total row included.
C10_SaveWritesHeaderAndRows ==
    last_op = "save_session:saved" =>
        /\ raised = "none"
        /\ outfile = Some(csv_summary(Val(summary)))
        /\ Len(Val(outfile)) = 1 + Len(Val(summary))


(***************************************************************************)
(* Properties of the detail view's options and export.                     *)
(***************************************************************************)
checked_transforms(p) == {k \in {"raw", "trend", "avg"} : p.vars[k]}

\* C11: a completed optbtn_save writes exactly the series of the view's
\* current selection: the header is the sorted names of the checked
\* transforms, row i holds sample i of every series in header order, and
\* there are as many rows as the series have samples.
C11_SaveWritesCurrentSelection ==
    last_op = "optbtn_save:saved" =>
        LET stats == Val(Val(popup).display_data).stats
            header == sorted(checked_transforms(Val(popup)))
            rows == Tail(Val(outfile))
        IN /\ DOMAIN stats = checked_transforms(Val(popup))
           /\ Val(outfile)[1] = header
           /\ \A k \in 1..Len(header) :
                 /\ Len(rows) = Len(stats[header[k]])
                 /\ \A i \in 1..Len(rows) : rows[i][k] = stats[header[k]][i]


C13_WindowValidated ==
    (popup /= None /\ Val(popup).calc_args /= None) =>
        LET avgiterations == Val(Val(popup).calc_args).avgiterations
        IN is_decimal(avgiterations) /\ py_int(avgiterations) >= 1


\* C14: a view goes Uninitialized -> Built -> Updated.  The option writes made
\* while it is constructed run no recompute and no refresh: construction ends
\* with exactly one compute, made on the default options before the graph is
\* created from its result, and with graph_initialised set.  Once set,
\* graph_initialised never returns to False.
C14_BuiltOnceThenUpdated ==
    /\ [](popup /= None =>
            /\ Val(popup).graph_initialised
            /\ last_op = "SessionPopUp" =>
                  /\ Val(popup).computes = 1
                  /\ Val(popup).refreshes = 0
                  /\ Val(popup).yscales = 0
                  /\ Val(popup).calc_args = Some(calc_args_of(default_vars))
                  /\ Val(popup).display_data /= None
                  /\ Val(popup).graph_data = Val(popup).display_data)
    /\ [][popup /= None =>
            /\ popup' /= None
            /\ Val(popup').graph_initialised]_vars

C14_Witness ==
    /\ last_op = "SessionPopUp"
    /\ popup /= None
    /\ Val(popup).vars = default_vars
    /\ Val(popup).graph_initialised
    /\ Val(popup).computes = 1


(***************************************************************************)
(* Further properties of the popup placement.                              *)
(***************************************************************************)
\* C15: on an 800x600 screen the first call of data_popup_get_position
\* returns (120, 120) and the second returns (320, 320).
C15_FirstTwoPositions ==
    screen = <<800, 600>> =>
        /\ Len(popup_positions) >= 1 => popup_positions[1] = <<120, 120>>
        /\ Len(popup_positions) >= 2 => popup_positions[2] = <<320, 320>>
        /\ (pc = "idle" /\ Len(popup_positions) = 1) =>
               position = Some(<<120, 120>>)
        /\ (pc = "idle" /\ Len(popup_positions) = 2) =>
               position = Some(<<320, 320>>)

C15_Witness ==
    /\ screen = <<800, 600>>
    /\ pc = "idle"
    /\ Len(popup_positions) = 2
    /\ position = Some(<<320, 320>>)


\* C16: the list of allocated positions only grows.  No handler other than
\* the allocation changes it: closing a popup, clear_session, load_session
\* and reset_session leave it as it is, and so does a pass of the search that
\* continues; the pass that returns appends exactly the returned position.
C16_PositionsOnlyGrow ==
    [][/\ Len(popup_positions') >= Len(popup_positions)
       /\ SubSeq(popup_positions', 1, Len(popup_positions)) = popup_positions
       /\ (pc = "idle" /\ pc' = "idle") => popup_positions' = popup_positions
       /\ (pc = "idle"
           /\ last_op' \in {"popup_close", "clear_session",
                            "load_session:cancelled", "load_session:nologs",
                            "load_session:ok", "reset_session:notrunning",
                            "reset_session:ok"}) =>
               popup_positions' = popup_positions
       /\ pc' = "search" => popup_positions' = popup_positions
       /\ (pc = "search" /\ pc' = "idle") =>
               popup_positions' = Append(popup_positions, Val(position'))]_vars

C16_Witness ==
    /\ Len(popup_positions) >= 2
    /\ last_op = "load_session:ok"
    /\ pc = "idle"


(***************************************************************************)
(* Further properties of the summary and its tree.                         *)
(***************************************************************************)
\* C17: a summary loaded from a non-empty sequence of session records has one
\* record more than there are sessions; its last record, and no other, has
\* the session id "Total".  The tree has exactly one row tagged total, the
\* last, and only the id of that row makes a view a totals view.
C17_ExactlyOneTotal ==
    (summary /= None /\ Len(Val(session).data) >= 1) =>
        LET records == Val(summary)
        IN /\ Len(records) = Len(Val(session).data) + 1
           /\ records[Len(records)].session = "Total"
           /\ \A i \in 1..(Len(records) - 1) : records[i].session /= "Total"
           /\ Len(tree) = Len(records)
           /\ \A i \in 1..Len(tree) :
                 /\ tree[i].tags = "total" <=> i = Len(tree)
                 /\ is_totals_of(tree[i].values[1]) <=> i = Len(tree)

C17_Witness ==
    /\ summary /= None
    /\ Len(Val(summary)) = 3
    /\ Len(tree) = 3
    /\ tree[3].tags = "total"
    /\ tree[1].tags = ""


(***************************************************************************)
(* The search of data_popup_get_position, pass by pass.                    *)
(***************************************************************************)
\* C18: within one call, a pass that steps the candidate out of bounds moves
\* the origin by exactly +50 in x, leaves its y at 120 and restarts from the
\* new origin; a pass that stays in bounds keeps the origin and moves the
\* candidate by (+200, +200).  Hence every returned position has the form
\* (120 + 50k + 200j, 120 + 200j) with k, j >= 0.
C18_NudgeOnlyInX ==
    /\ [][(pc = "search" /\ pc' = "search") =>
            LET stepped == <<pos[1] + 200, pos[2] + 200>>
            IN IF ~in_bounds(stepped)
               THEN /\ init_pos' = <<init_pos[1] + 50, init_pos[2]>>
                    /\ init_pos'[2] = 120
                    /\ pos' = init_pos'
               ELSE /\ init_pos' = init_pos
                    /\ pos' = stepped]_vars
    /\ [](\A i \in 1..Len(popup_positions) :
            LET p == popup_positions[i]
                j == (p[2] - 120) \div 200
                k == (p[1] - p[2]) \div 50
            IN /\ j >= 0
               /\ k >= 0
               /\ p = <<120 + 50 * k + 200 * j, 120 + 200 * j>>)

\* a position returned after a nudge and a step: k >= 1 and j >= 1
C18_Witness ==
    /\ pc = "idle"
    /\ position /= None
    /\ Val(position)[2] >= 320
    /\ Val(position)[1] > Val(position)[2]


(***************************************************************************)
(* The transforms handed to the calculation.                               *)
(***************************************************************************)
\* C19: the selections passed to the calculation are exactly the checked
\* boxes among raw, trend and avg, each once: never "outliers", which goes as
\* a flag of its own; <<"raw">> for a view just built; and the empty list,
\* passed on without an error of the view, when all three are unchecked.
C19_SelectionsAreCheckedTransforms ==
    (popup /= None /\ Val(popup).calc_args /= None) =>
        LET args == Val(Val(popup).calc_args)
            passed == {args.selections[i] : i \in 1..Len(args.selections)}
        IN /\ passed = checked_transforms(Val(popup))
           /\ Cardinality(passed) = Len(args.selections)
           /\ passed \subseteq {"raw", "trend", "avg"}
           /\ "outliers" \notin passed
           /\ args.outliers = Val(popup).vars.outliers
           /\ last_op = "SessionPopUp" => args.selections = <<"raw">>
           /\ checked_transforms(Val(popup)) = {} =>
                 /\ args.selections = <<>>
                 /\ raised = "none"

C19_Witness ==
    /\ popup /= None
    /\ last_op = "checkbutton"
    /\ checked_transforms(Val(popup)) = {}
    /\ Val(popup).vars.outliers
    /\ Val(Val(popup).calc_args).selections = <<>>
    /\ Val(popup).computes = 1


(***************************************************************************)
(* Loads and refreshes that do not complete.                               *)
(***************************************************************************)
\* C20: a load or refresh that does not complete (the file picker cancelled,
\* no logs folder, or a reset while no training session is initialized)
\* leaves the store cleared, not restored: no summary, an empty tree, the
\* info line "No session data loaded", whatever was loaded before; the
\* session object is not replaced and no summary is taken from it.
C20_FailedLoadLeavesCleared ==
    [][last_op' \in {"load_session:cancelled", "load_session:nologs",
                     "reset_session:notrunning"} =>
          /\ summary' = None
          /\ loaded_data' = None
          /\ tree' = <<>>
          /\ tree_height' = 1
          /\ info' = "No session data loaded"
          /\ session' = session]_vars

\* a failed attempt made after a session had been loaded
C20_Witness ==
    /\ last_op \in {"load_session:cancelled", "load_session:nologs",
                    "reset_session:notrunning"}
    /\ session /= None
    /\ summary = None
    /\ tree = <<>>


(***************************************************************************)
(* data_popup: construction of the view and allocation of its position.    *)
(***************************************************************************)
\* C21: data_popup constructs the view before it asks for a position.  A
\* selection whose construction fails leaves popup_positions unchanged and
\* starts no search; a construction that succeeds starts one search, which
\* ends by appending exactly one position, the one returned; and no other
\* step adds a position.
C21_PositionOnlyForBuiltView ==
    [][/\ (pc = "idle" /\ last_op' = "select_item:data_popup"
           /\ raised' /= "none") =>
              /\ popup_positions' = popup_positions
              /\ pc' = "idle"
              /\ popup' = popup
       /\ (pc = "idle" /\ last_op' = "select_item:data_popup"
           /\ raised' = "none") =>
              /\ popup_positions' = popup_positions
              /\ pc' = "search"
              /\ popup' /= None
              /\ Val(popup').graph_initialised
       /\ popup_positions' /= popup_positions =>
              /\ pc = "search"
              /\ pc' = "idle"
              /\ last_op = "select_item:data_popup"
              /\ raised = "none"
              /\ popup /= None
              /\ popup_positions' = Append(popup_positions, Val(position'))
       /\ (pc = "search" /\ pc' = "idle") =>
              Len(popup_positions') = Len(popup_positions) + 1]_vars

\* a failed construction after two views were built and placed
C21_Witness ==
    /\ last_op = "select_item:data_popup"
    /\ raised \in {"TypeError", "IndexError"}
    /\ pc = "idle"
    /\ popup /= None
    /\ Len(popup_positions) = 2
====
